---- MODULE Spec2Model ----
(***************************************************************************)
(* Model of buildbot_nix/gitlab_project.py: the reload job of the GitLab   *)
(* backend.  One job is two build steps run in order by the host:          *)
(*   ReloadGitlabProjects        fetch projects, filter by topic, write    *)
(*                               the project cache file                    *)
(*   CreateGitlabProjectHooks    read the cache, give every cached project *)
(*                               a webhook at the callback URL, then send  *)
(*                               SIGHUP to the host process                *)
(* and GitlabBackend.load_projects / are_projects_cached, which the host   *)
(* calls to read the cache.                                                *)
(*                                                                         *)
(* The helpers imported from buildbot_nix.common are not part of the       *)
(* source at hand; they are modelled from their description in the         *)
(* specification and marked so where they are defined.                     *)
(***************************************************************************)
EXTENDS Naturals, Sequences, FiniteSets, TLC

(***************************************************************************)
(* Bounds of the model.                                                    *)
(***************************************************************************)
\* Project ids known to the hosting service are 1..NumProjects.
NumProjects == 2
\* Page size of the paginated API (the code asks for per_page=100).
PerPage == 1
\* Largest number of records in a cache file that is given to load_projects
\* as it is, whatever wrote it.
MaxCached == 3

Ids == 1..NumProjects

(***************************************************************************)
(* Strings that are compared for order are sequences of character codes,   *)
(* compared as Python compares str: lexicographically, a proper prefix     *)
(* first.                                                                  *)
(***************************************************************************)
StrLess(a, b) ==
    \E k \in 1..(Len(a) + 1) :
        /\ k <= Len(b)
        /\ \A j \in 1..(k - 1) : a[j] = b[j]
        /\ (k = Len(a) + 1 \/ a[k] < b[k])

\* The fully-qualified path of project i.  Paths are not ordered as ids are:
\* odd ids live in namespace 2, even ids in namespace 1.
PathOf(i) == IF i % 2 = 1 THEN <<2, i>> ELSE <<1, i>>

(***************************************************************************)
(* Configuration (GitlabConfig and the instance_url of the backend).       *)
(***************************************************************************)
instance_url == "https://bb/"
webhook_secret == "s3cret"
\* config.topic is Optional[str]: [set |-> FALSE] models None.
NoTopic == [set |-> FALSE, val |-> ""]
Topics == {NoTopic, [set |-> TRUE, val |-> "ci"]}

(***************************************************************************)
(* Project records.  A raw record is the JSON object the API returns; the  *)
(* fields kept are the ones the reload and provisioning stages read.  A    *)
(* raw record without "topics" does not validate as RepoData.              *)
(***************************************************************************)
TopicLists == {<<"ci">>, <<"CI", "ci-cd">>}

RawChoices(i) ==
    {[id |-> i, path_with_namespace |-> PathOf(i), topics |-> t] : t \in TopicLists}
    \cup {[id |-> i, path_with_namespace |-> PathOf(i)]}

RepoDataFields == {"id", "path_with_namespace", "topics"}

\* RepoData.model_validate: TRUE when the raw record has every required field.
RepoData_validates(raw) == RepoDataFields \subseteq DOMAIN raw

(***************************************************************************)
(* Sequences helpers.                                                      *)
(***************************************************************************)
Range(s) == {s[i] : i \in DOMAIN s}

Min(a, b) == IF a < b THEN a ELSE b

RECURSIVE SelectSeqBy(_, _)
\* The subsequence of s of the elements in the set keep, order preserved.
SelectSeqBy(s, keep) ==
    IF s = <<>> THEN <<>>
    ELSE IF Head(s) \in keep THEN <<Head(s)>> \o SelectSeqBy(Tail(s), keep)
         ELSE SelectSeqBy(Tail(s), keep)

(***************************************************************************)
(* Topic filter (buildbot_nix.common.filter_repos_by_topic, modelled from   *)
(* the specification: pass-through when no topic is configured, otherwise  *)
(* the records whose topic list has the topic as an element).              *)
(***************************************************************************)
HasTopic(t, topics) == \E k \in DOMAIN topics : topics[k] = t

filter_repos_by_topic(t, rs) ==
    IF ~t.set THEN rs
    ELSE SelectSeqBy(rs, {r \in Range(rs) : HasTopic(t.val, r.topics)})

(***************************************************************************)
(* sorted(..., key=lambda repo: repo.path_with_namespace): a stable sort.  *)
(***************************************************************************)
RECURSIVE InsertByPath(_, _)
InsertByPath(x, s) ==
    IF s = <<>> THEN <<x>>
    ELSE IF StrLess(x.path_with_namespace, Head(s).path_with_namespace)
         THEN <<x>> \o s
         ELSE <<Head(s)>> \o InsertByPath(x, Tail(s))

RECURSIVE SortedByPath(_)
SortedByPath(s) ==
    IF s = <<>> THEN <<>>
    ELSE InsertByPath(s[Len(s)], SortedByPath(SubSeq(s, 1, Len(s) - 1)))

IsSortedByPath(s) ==
    \A i, j \in DOMAIN s :
        i < j => ~StrLess(s[j].path_with_namespace, s[i].path_with_namespace)

(***************************************************************************)
(* The cache document.  A file is [exists, data]; data is a sequence of     *)
(* tokens: an opening bracket, one token per record, a closing bracket.    *)
(* model_dump_project_cache / model_validate_project_cache are modelled    *)
(* from the specification of the Project Cache Store.                      *)
(***************************************************************************)
NoFile == [exists |-> FALSE, data |-> <<>>]
Open == [t |-> "["]
Close == [t |-> "]"]
RecTok(r) == [t |-> "rec", rec |-> r]

model_dump_project_cache(rs) ==
    <<Open>> \o [k \in 1..Len(rs) |-> RecTok(rs[k])] \o <<Close>>

\* A document decodes when it is bracketed and every record validates.
Decodes(data) ==
    /\ Len(data) >= 2
    /\ data[1] = Open
    /\ data[Len(data)] = Close
    /\ \A k \in 2..(Len(data) - 1) :
           /\ data[k].t = "rec"
           /\ RepoData_validates(data[k].rec)

\* The result of decoding the content of an existing cache file, as
\* [ok, repos]: ok is FALSE when the call raises.
model_validate_project_cache(data) ==
    IF ~Decodes(data) THEN [ok |-> FALSE, repos |-> <<>>]
    ELSE [ok |-> TRUE, repos |-> [k \in 1..(Len(data) - 2) |-> data[k + 1].rec]]

\* The records of the cache file as it is now (none when it is missing or
\* does not decode).
CacheRepos(file) ==
    IF file.exists THEN model_validate_project_cache(file.data).repos ELSE <<>>

(***************************************************************************)
(* atomic_write_file (modelled from the specification): create a temporary *)
(* file next to the target, write the data into it, rename it over the     *)
(* target.  One call of the operator is one step of the write; fs is       *)
(* [cache, tmp, open], where open tells that this write has made its       *)
(* temporary file, and done tells that the rename has happened.  The       *)
(* temporary file has one name: a file left there by a write that was      *)
(* killed is replaced by the empty file of the next write.                 *)
(***************************************************************************)
atomic_write_step(fs, data) ==
    IF ~fs.open
    THEN [cache |-> fs.cache, tmp |-> [exists |-> TRUE, data |-> <<>>], done |-> FALSE]
    ELSE IF Len(fs.tmp.data) < Len(data)
    THEN [cache |-> fs.cache,
          tmp |-> [exists |-> TRUE, data |-> Append(fs.tmp.data, data[Len(fs.tmp.data) + 1])],
          done |-> FALSE]
    ELSE [cache |-> fs.tmp, tmp |-> NoFile, done |-> TRUE]

(***************************************************************************)
(* Paginated API client (buildbot_nix.common.paginated_github_request,     *)
(* modelled from the specification): the page that follows the first n     *)
(* items of the collection, and whether a further page exists after it.    *)
(***************************************************************************)
PageAfter(coll, n) == SubSeq(coll, n + 1, Min(n + PerPage, Len(coll)))
MorePages(coll, n) == n + PerPage < Len(coll)

(***************************************************************************)
(* Webhooks (create_project_hook).                                         *)
(***************************************************************************)
\* hook_url of create_project_hook.
hook_url_wrong_base == "https://gitlab/" \o "change_hook/gitlab"
hook_url == instance_url \o "change_hook/gitlab"

\* The hook the POST creates.
NewHook == [url |-> hook_url, token |-> webhook_secret, enable_ssl_verification |-> TRUE]

\* The address at which the host receives GitLab's events, as the hosting
\* service stores it.
CallbackUrl == "https://bb/change_hook/gitlab"

\* Hooks that may exist before any provisioning: at the callback URL with an
\* old secret and SSL verification off, and at a URL that only starts with
\* the callback URL.  A project starts with no hook, with a hook elsewhere,
\* or with a hook elsewhere and one at the callback URL.
StaleHook == [url |-> CallbackUrl, token |-> "old", enable_ssl_verification |-> FALSE]
NearHook == [url |-> "https://bb/change_hook/gitlab/", token |-> "s3cret",
             enable_ssl_verification |-> TRUE]
HookInits == {<<>>, <<NearHook>>, <<NearHook, StaleHook>>}

\* The loop of create_project_hook over the listed hooks: TRUE when it
\* returns early, so that no hook is created.
HookAlreadyExists_never(hs) == \E k \in DOMAIN hs : hs[k].url = instance_url
HookAlreadyExists_first_only(hs) == hs # <<>> /\ hs[1].url = hook_url
HookAlreadyExists_checks_secret(hs) ==
    \E k \in DOMAIN hs : hs[k].url = hook_url /\ hs[k].token = webhook_secret
HookAlreadyExists(hs) == \E k \in DOMAIN hs : hs[k].url = hook_url

\* The POST of create_project_hook, on the hosting service: the project's
\* hooks hs gain the new hook.  (PostHook_replaces puts the new hook in the
\* place of the ones the project has.)
PostHook_replaces(hs) == <<NewHook>>
PostHook(hs) == Append(hs, NewHook)

\* Number of hooks in the list hs at the callback URL.
CountAt(hs) == Cardinality({k \in DOMAIN hs : hs[k].url = CallbackUrl})

(***************************************************************************)
(* GitlabBackend.load_projects and are_projects_cached.                    *)
(***************************************************************************)
are_projects_cached(file) == file.exists

\* [raised, projects]
load_projects_unguarded(file, t) ==
    LET v == IF file.exists THEN model_validate_project_cache(file.data)
             ELSE [ok |-> FALSE, repos |-> <<>>]
    IN  IF ~v.ok THEN [raised |-> TRUE, projects |-> <<>>]
        ELSE [raised |-> FALSE,
              projects |-> filter_repos_by_topic(t, SortedByPath(v.repos))]

\* (load_projects_unsorted leaves the records in the order of the file.)
load_projects_unsorted(file, t) ==
    IF ~file.exists THEN [raised |-> FALSE, projects |-> <<>>]
    ELSE LET v == model_validate_project_cache(file.data)
         IN  IF ~v.ok THEN [raised |-> TRUE, projects |-> <<>>]
             ELSE [raised |-> FALSE, projects |-> filter_repos_by_topic(t, v.repos)]

load_projects(file, t) ==
    IF ~file.exists THEN [raised |-> FALSE, projects |-> <<>>]
    ELSE LET v == model_validate_project_cache(file.data)
         IN  IF ~v.ok THEN [raised |-> TRUE, projects |-> <<>>]
             ELSE [raised |-> FALSE,
                   projects |-> filter_repos_by_topic(t, SortedByPath(v.repos))]

(***************************************************************************)
(* The reload job.                                                         *)
(***************************************************************************)
\* create_reload_builder: the steps of the job, in the order they are added.
Steps_swapped == <<"hooks", "reload">>
Steps == <<"reload", "hooks">>

\* Where a step's run_deferred starts.
Entry(name) == IF name = "reload" THEN "begin" ELSE "read"

\* run_post of the two steps: whether it signals the host, and its result.
ReloadGitlabProjects_run_post_signals == [signal |-> TRUE, result |-> "SUCCESS"]
ReloadGitlabProjects_run_post == [signal |-> FALSE, result |-> "SUCCESS"]
CreateGitlabProjectHooks_run_post == [signal |-> TRUE, result |-> "SUCCESS"]
run_post(name) ==
    IF name = "reload" THEN ReloadGitlabProjects_run_post
    ELSE CreateGitlabProjectHooks_run_post

\* ThreadDeferredBuildStep.run (modelled from the specification): when
\* run_deferred raised the step fails and run_post is not called, otherwise
\* the step does what run_post does.
ThreadDeferredBuildStep_run_always_post(raised, post) == post

ThreadDeferredBuildStep_run(raised, post) ==
    IF raised THEN [signal |-> FALSE, result |-> "FAILURE"] ELSE post

\* refresh_projects: the projects the API serves, in ascending id order
\* (order_by=id&sort=asc), for an upstream set of raw records.
ListById(U) ==
    [k \in 1..Cardinality(U) |->
        CHOOSE r \in U : Cardinality({q \in U : q.id < r.id}) = k - 1]

Upstreams ==
    {U \in SUBSET (UNION {RawChoices(i) : i \in Ids}) :
        \A a, b \in U : a.id = b.id => a = b}

\* ReloadGitlabProjects.run_deferred, after the fetch: the records to cache.
ReloadRepos_unfiltered(t, validated) == validated
ReloadRepos(t, validated) == filter_repos_by_topic(t, validated)

\* ReloadGitlabProjects.run_deferred: one step of the write of the cache.
\* (ReloadWriteStep_in_place writes the target itself, as write_text would;
\* the temporary file stands for the open handle.)
ReloadWriteStep_in_place(fs, data) ==
    IF ~fs.open
    THEN [cache |-> [exists |-> TRUE, data |-> <<>>],
          tmp |-> [exists |-> TRUE, data |-> <<>>], done |-> FALSE]
    ELSE IF Len(fs.cache.data) < Len(data)
    THEN [cache |-> [exists |-> TRUE,
                     data |-> Append(fs.cache.data, data[Len(fs.cache.data) + 1])],
          tmp |-> fs.tmp, done |-> FALSE]
    ELSE [cache |-> fs.cache, tmp |-> NoFile, done |-> TRUE]

\* (ReloadWriteStep_appends writes the new records after the ones the cache
\* holds; ReloadWriteStep_keeps_old keeps the cached records of the projects
\* that the new records do not name.)
ReloadWriteStep_appends(fs, data) ==
    atomic_write_step(fs, model_dump_project_cache(
        CacheRepos(fs.cache) \o model_validate_project_cache(data).repos))

ReloadWriteStep_keeps_old(fs, data) ==
    LET new == model_validate_project_cache(data).repos
        old == SelectSeqBy(CacheRepos(fs.cache),
                           {r \in Range(CacheRepos(fs.cache)) :
                               \A k \in DOMAIN new : new[k].id # r.id})
    IN  atomic_write_step(fs, model_dump_project_cache(old \o new))

ReloadWriteStep(fs, data) == atomic_write_step(fs, data)

\* ReloadGitlabProjects.run_deferred when refresh_projects raises: the
\* exception leaves run_deferred before the write, the files stay as they are.
ReloadOnError_writes_partial(fs, partial) ==
    [cache |-> [exists |-> TRUE,
                data |-> model_dump_project_cache(
                             SelectSeqBy(partial, {r \in Range(partial) : RepoData_validates(r)}))],
     tmp |-> fs.tmp]

ReloadOnError(fs, partial) == fs

(***************************************************************************)
(* State.                                                                  *)
(***************************************************************************)
VARIABLES
    cache,      \* the project cache file
    tmp,        \* the temporary file of the cache write, as it is on disk
    hooks,      \* hosting service: the webhooks of every project
    topic,      \* config.topic
    step,       \* index in Steps of the running step, 0 when no job runs
    pc,         \* position in the running step, "idle", or "done"; a write
                \* is at "open" before it makes its temporary file, then
                \* at "write"
    listing,    \* the project collection the API serves to this reload
    fetched,    \* reload: the raw records fetched so far
    doc,        \* reload: the document being written
    repos,      \* provisioning: the records read from the cache
    idx,        \* provisioning: index in repos of the current project
    listed,     \* provisioning: hooks of the current project fetched so far
    posts,      \* provisioning: hook-creating POSTs issued in this run
    results,    \* the results of the job's finished steps
    sighup,     \* a SIGHUP is pending at the host process
    loaded,     \* what the host's last calls of load_projects and
                \* are_projects_cached returned
    cache0,     \* history: the cache file when the reload in progress began
    hooks0,     \* history: the webhooks in the initial state
    provisioned,\* history: a provisioning run has completed for this cache content
    rerun,      \* history: this provisioning run read a cache already provisioned
    sent,       \* history: this job has sent the reconfiguration signal
    prev,       \* history: what the last successful reload fetched, and its topic
    halfway,    \* history, kept under SpecAbort only: a provisioning run over
                \* this cache ended early after it created a hook
    sigjob,     \* history: the pending signal was sent by a job whose reload
                \* and provisioning both succeeded
    dup         \* a second, duplicate provisioning run

vars == <<cache, tmp, hooks, topic, step, pc, listing, fetched, doc, repos, idx,
          listed, posts, results, sighup, loaded, cache0, hooks0, provisioned,
          rerun, sent, prev, halfway, sigjob, dup>>

reloadVars == <<listing, fetched, doc>>
provVars == <<repos, idx, listed, posts>>

NoLoad == [called |-> FALSE, by |-> "", complete |-> FALSE, existed |-> FALSE,
           raised |-> FALSE, projects |-> <<>>,
           asked |-> FALSE, present |-> FALSE, cached |-> FALSE]

NoReload == [valid |-> FALSE, upstream |-> {}, topic |-> NoTopic, cache |-> NoFile]
NoDup == [pc |-> "idle", repos |-> <<>>, idx |-> 0, listed |-> <<>>]

\* The history of runs that ended early: not kept, or kept and so far none.
NoHistory == [kept |-> FALSE, aborted |-> FALSE]
History == [kept |-> TRUE, aborted |-> FALSE]

\* The state after construction, but for the history.
Start ==
    /\ cache = NoFile
    /\ tmp = NoFile
    /\ hooks \in [Ids -> HookInits]
    /\ topic \in Topics
    /\ step = 0
    /\ pc = "idle"
    /\ listing = <<>>
    /\ fetched = <<>>
    /\ doc = <<>>
    /\ repos = <<>>
    /\ idx = 0
    /\ listed = <<>>
    /\ posts = 0
    /\ results = <<>>
    /\ sighup = FALSE
    /\ loaded = NoLoad
    /\ cache0 = NoFile
    /\ hooks0 = hooks
    /\ provisioned = FALSE
    /\ rerun = FALSE
    /\ sent = FALSE
    /\ prev = NoReload
    /\ sigjob = FALSE
    /\ dup = NoDup

Init == Start /\ halfway = NoHistory

\* The history after a step: aborted becomes v where the history is kept.
Aborted(v) == [halfway EXCEPT !.aborted = halfway.kept /\ v]

Running(name) == step \in DOMAIN Steps /\ Steps[step] = name /\ pc # "done"

(***************************************************************************)
(* The host runs the steps of a job one after the other.  A step that      *)
(* failed either halts the job or lets the next step run: which of the two *)
(* is the host's configuration of the step.  A job starts whenever none    *)
(* runs, also while the signal of the job before it is still pending.      *)
(***************************************************************************)
StartJob ==
    /\ pc = "idle"
    /\ UNCHANGED sigjob
    /\ UNCHANGED <<prev, halfway, dup>>
    /\ step' = 1
    /\ pc' = Entry(Steps[1])
    /\ results' = <<>>
    /\ sent' = FALSE
    /\ posts' = 0
    /\ loaded' = NoLoad
    /\ UNCHANGED <<cache, tmp, hooks, topic, reloadVars, repos, idx, listed,
                   sighup, cache0, hooks0, provisioned, rerun>>

\* The running step ends: ThreadDeferredBuildStep.run gives its result, and
\* the host goes on.  at tells in which request run_deferred raised, if it
\* did, and n at which record of the provisioning loop (0 for the reload).
EndStep(raised, at, n) ==
    LET name == Steps[step]
        out == ThreadDeferredBuildStep_run(raised, run_post(name))
    IN  /\ results' = Append(results, [step |-> name, raised |-> raised,
                                       result |-> out.result, at |-> at, n |-> n])
        /\ sighup' = (sighup \/ out.signal)
        /\ sent' = (sent \/ out.signal)
        /\ \E halt \in (IF raised THEN BOOLEAN ELSE {FALSE}) :
               IF step < Len(Steps) /\ ~halt
               THEN step' = step + 1 /\ pc' = Entry(Steps[step + 1])
               ELSE step' = step /\ pc' = "done"

JobEnd ==
    /\ pc = "done"
    /\ UNCHANGED sigjob
    /\ UNCHANGED <<prev, dup>>
    /\ halfway' = Aborted(halfway.aborted /\ \A k \in DOMAIN results :
                              results[k].step = "hooks" => results[k].raised)
    /\ step' = 0
    /\ pc' = "idle"
    /\ results' = <<>>
    /\ sent' = FALSE
    /\ repos' = <<>>
    /\ idx' = 0
    /\ listed' = <<>>
    /\ posts' = 0
    /\ cache0' = NoFile
    /\ rerun' = FALSE
    /\ loaded' = NoLoad
    /\ UNCHANGED <<cache, tmp, hooks, topic, reloadVars, sighup, hooks0, provisioned>>

(***************************************************************************)
(* ReloadGitlabProjects.run_deferred.                                      *)
(***************************************************************************)
ClearReload == listing' = <<>> /\ fetched' = <<>> /\ doc' = <<>>

\* The step starts; the hosting service holds some set of projects.
ReloadBegin ==
    /\ Running("reload") /\ pc = "begin"
    /\ UNCHANGED sigjob
    /\ UNCHANGED <<prev, halfway, dup>>
    /\ \E U \in Upstreams : listing' = ListById(U)
    /\ fetched' = <<>>
    /\ doc' = <<>>
    /\ cache0' = cache
    /\ pc' = "fetch"
    /\ loaded' = NoLoad
    /\ UNCHANGED <<cache, tmp, hooks, topic, step, provVars, results, sighup,
                   hooks0, provisioned, rerun, sent>>

\* refresh_projects: one page of the project list arrives.
ReloadFetchPage ==
    /\ Running("reload") /\ pc = "fetch"
    /\ UNCHANGED sigjob
    /\ UNCHANGED <<prev, halfway, dup>>
    /\ fetched' = fetched \o PageAfter(listing, Len(fetched))
    /\ pc' = IF MorePages(listing, Len(fetched)) THEN "fetch" ELSE "decode"
    /\ loaded' = NoLoad
    /\ UNCHANGED <<cache, tmp, hooks, topic, step, listing, doc, provVars,
                   results, sighup, cache0, hooks0, provisioned, rerun, sent>>

\* refresh_projects: the request of a page fails.
ReloadFetchFail ==
    /\ Running("reload") /\ pc = "fetch"
    /\ UNCHANGED sigjob
    /\ UNCHANGED <<prev, halfway, dup>>
    /\ LET fs == ReloadOnError([cache |-> cache, tmp |-> tmp], fetched)
       IN  cache' = fs.cache /\ tmp' = fs.tmp
    /\ EndStep(TRUE, "fetch", 0)
    /\ ClearReload
    /\ loaded' = NoLoad
    /\ UNCHANGED <<hooks, topic, provVars, cache0, hooks0, provisioned, rerun>>

\* refresh_projects validates every fetched record; run_deferred filters the
\* records by topic and serialises them.
ReloadDecode ==
    /\ Running("reload") /\ pc = "decode"
    /\ UNCHANGED sigjob
    /\ UNCHANGED <<prev, halfway, dup>>
    /\ loaded' = NoLoad
    /\ IF \E k \in DOMAIN fetched : ~RepoData_validates(fetched[k])
       THEN /\ LET bad == CHOOSE k \in DOMAIN fetched :
                              /\ ~RepoData_validates(fetched[k])
                              /\ \A j \in 1..(k - 1) : RepoData_validates(fetched[j])
                   fs == ReloadOnError([cache |-> cache, tmp |-> tmp],
                                       SubSeq(fetched, 1, bad - 1))
               IN  /\ cache' = fs.cache /\ tmp' = fs.tmp
                   /\ EndStep(TRUE, "decode", 0)
            /\ ClearReload
            /\ UNCHANGED <<hooks, topic, provVars, cache0, hooks0, provisioned, rerun>>
       ELSE /\ doc' = model_dump_project_cache(ReloadRepos(topic, fetched))
            /\ pc' = "open"
            /\ UNCHANGED <<cache, tmp, hooks, topic, step, listing, fetched,
                           provVars, results, sighup, cache0, hooks0, provisioned, rerun, sent>>

\* One step of atomic_write_file; after the rename run_deferred returns.
\* The host's calls and these steps interleave.  What the host has read is
\* kept over a step that changes the cache file; over any other step it is
\* dropped, since a call made before such a step reads what the same call
\* made after it reads.
ReloadWrite ==
    /\ Running("reload") /\ pc \in {"open", "write"}
    /\ UNCHANGED sigjob
    /\ UNCHANGED <<prev, dup>>
    /\ LET fs == ReloadWriteStep([cache |-> cache, tmp |-> tmp,
                                  open |-> pc = "write"], doc)
       IN  /\ cache' = fs.cache
           /\ tmp' = fs.tmp
           /\ pc' = IF fs.done THEN "post" ELSE "write"
    /\ provisioned' = (provisioned /\ cache' = cache)
    /\ halfway' = Aborted(halfway.aborted /\ cache' = cache)
    /\ loaded' = IF cache' = cache THEN NoLoad ELSE loaded
    /\ UNCHANGED <<hooks, topic, step, reloadVars, provVars, results, sighup,
                   cache0, hooks0, rerun, sent>>

\* The write fails (an OSError) and the exception leaves run_deferred: the
\* temporary file this write has made is dropped; when it is the making of
\* the file that fails, the directory stays as it was.
ReloadWriteFail ==
    /\ Running("reload") /\ pc \in {"open", "write"}
    /\ UNCHANGED sigjob
    /\ UNCHANGED <<prev, halfway, dup>>
    /\ tmp' = IF pc = "write" THEN NoFile ELSE tmp
    /\ EndStep(TRUE, "write", 0)
    /\ ClearReload
    /\ loaded' = NoLoad
    /\ UNCHANGED <<cache, hooks, topic, provVars, cache0, hooks0, provisioned, rerun>>

\* run_deferred has returned: ThreadDeferredBuildStep.run calls run_post.
ReloadReturns ==
    /\ Running("reload") /\ pc = "post"
    /\ UNCHANGED sigjob
    /\ UNCHANGED <<halfway, dup>>
    /\ EndStep(FALSE, "", 0)
    /\ ClearReload
    /\ cache0' = NoFile
    /\ loaded' = NoLoad
    /\ UNCHANGED <<cache, tmp, hooks, topic, provVars, hooks0, provisioned, rerun>>

ReloadPost ==
    /\ ReloadReturns
    /\ UNCHANGED prev

\* The same step, with the record of what this reload fetched and wrote kept
\* for the comparison with the next reload.
ReloadPostRecorded ==
    /\ ReloadReturns
    /\ prev' = [valid |-> TRUE, upstream |-> Range(listing), topic |-> topic,
                cache |-> cache]

(***************************************************************************)
(* CreateGitlabProjectHooks.run_deferred and create_project_hook.          *)
(***************************************************************************)
\* The loop over repos goes to its k-th record, or ends after the last.
Advance(rs, k) ==
    /\ idx' = k
    /\ listed' = <<>>
    /\ pc' = IF k > Len(rs) THEN "post" ELSE "list"

\* run_deferred reads the cache.  What model_validate_project_cache does
\* when the file is missing is not fixed by what is known of it (load_projects
\* guards its own call with exists()): it raises, or it gives no records.
HooksRead ==
    /\ Running("hooks") /\ pc = "read"
    /\ UNCHANGED sigjob
    /\ UNCHANGED <<prev, halfway, dup>>
    /\ loaded' = NoLoad
    /\ posts' = 0
    /\ rerun' = provisioned
    /\ UNCHANGED <<cache, tmp, hooks, topic, reloadVars, cache0, hooks0, provisioned>>
    /\ \E raises \in (IF cache.exists
                      THEN {~model_validate_project_cache(cache.data).ok}
                      ELSE BOOLEAN) :
          IF raises
          THEN /\ EndStep(TRUE, "read", 0)
               /\ UNCHANGED <<repos, idx, listed>>
          ELSE /\ repos' = IF cache.exists
                           THEN model_validate_project_cache(cache.data).repos
                           ELSE <<>>
               /\ Advance(repos', 1)
               /\ UNCHANGED <<step, results, sighup, sent>>

\* create_project_hook: one page of the project's hooks arrives; after the
\* last page the hooks are searched for the callback URL.
HooksListPage ==
    /\ Running("hooks") /\ pc = "list"
    /\ UNCHANGED sigjob
    /\ UNCHANGED <<prev, halfway, dup>>
    /\ loaded' = NoLoad
    /\ LET all == hooks[repos[idx].id]
           got == listed \o PageAfter(all, Len(listed))
       IN  IF MorePages(all, Len(listed))
           THEN listed' = got /\ UNCHANGED <<idx, pc>>
           ELSE IF HookAlreadyExists(got)
                THEN Advance(repos, idx + 1)
                ELSE listed' = got /\ pc' = "create" /\ UNCHANGED idx
    /\ UNCHANGED <<cache, tmp, hooks, topic, step, reloadVars, repos, posts,
                   results, sighup, cache0, hooks0, provisioned, rerun, sent>>

\* A request of create_project_hook raises.  The loop of run_deferred has
\* no handler around the call, so the exception leaves run_deferred and the
\* records after the current one are not visited.
HookErrorPropagates_swallowed == FALSE
HookErrorPropagates == TRUE

HookError(at) ==
    IF HookErrorPropagates
    THEN EndStep(TRUE, at, idx) /\ UNCHANGED <<idx, listed>>
    ELSE Advance(repos, idx + 1) /\ UNCHANGED <<step, results, sighup, sent>>

\* create_project_hook: the request of a page of hooks fails.
HooksListFail ==
    /\ Running("hooks") /\ pc = "list"
    /\ UNCHANGED sigjob
    /\ UNCHANGED <<prev, dup>>
    /\ halfway' = Aborted(halfway.aborted \/ posts >= 1)
    /\ loaded' = NoLoad
    /\ HookError("list")
    /\ UNCHANGED <<cache, tmp, hooks, topic, reloadVars, repos, posts, cache0,
                   hooks0, provisioned, rerun>>

\* create_project_hook: the POST creates the hook.
HooksCreate ==
    /\ Running("hooks") /\ pc = "create"
    /\ UNCHANGED sigjob
    /\ UNCHANGED <<prev, halfway, dup>>
    /\ loaded' = NoLoad
    /\ hooks' = [hooks EXCEPT ![repos[idx].id] = PostHook(@)]
    /\ posts' = posts + 1
    /\ Advance(repos, idx + 1)
    /\ UNCHANGED <<cache, tmp, topic, step, reloadVars, repos, results, sighup,
                   cache0, hooks0, provisioned, rerun, sent>>

\* create_project_hook: the POST fails; the hosting service may or may not
\* have created the hook before the failure.
HooksCreateFail ==
    /\ Running("hooks") /\ pc = "create"
    /\ UNCHANGED sigjob
    /\ UNCHANGED <<prev, dup>>
    /\ loaded' = NoLoad
    /\ \E created \in BOOLEAN :
           /\ hooks' = IF created
                       THEN [hooks EXCEPT ![repos[idx].id] = PostHook(@)]
                       ELSE hooks
           /\ halfway' = Aborted(halfway.aborted \/ posts >= 1 \/ created)
    /\ posts' = posts + 1
    /\ HookError("create")
    /\ UNCHANGED <<cache, tmp, topic, reloadVars, repos, cache0,
                   hooks0, provisioned, rerun>>

\* run_deferred has returned: ThreadDeferredBuildStep.run calls run_post,
\* which sends SIGHUP to the host process.
HooksPost ==
    /\ Running("hooks") /\ pc = "post"
    /\ sigjob' = ((sighup /\ sigjob)
                      \/ \E k \in DOMAIN results :
                             results[k].step = "reload" /\ ~results[k].raised)
    /\ UNCHANGED <<prev, halfway, dup>>
    /\ loaded' = NoLoad
    /\ EndStep(FALSE, "", idx)
    /\ provisioned' = (repos = CacheRepos(cache))
    /\ UNCHANGED <<cache, tmp, hooks, topic, reloadVars, provVars, cache0, hooks0,
                   rerun>>

(***************************************************************************)
(* The host process.                                                       *)
(***************************************************************************)
\* The host's record after a call of load_projects on the file as it is now:
\* existed is whether the call found the file.
LoadResult(by) ==
    LET r == load_projects(cache, topic)
    IN  [loaded EXCEPT !.called = TRUE, !.by = by, !.existed = cache.exists,
                       !.raised = r.raised, !.projects = r.projects]

\* The host's record after a call of are_projects_cached on the file as it is
\* now: present is whether the file was there at the call.
CachedResult ==
    [loaded EXCEPT !.asked = TRUE, !.present = cache.exists,
                   !.cached = are_projects_cached(cache)]

\* The host handles the SIGHUP: it reconfigures and calls load_projects.
HostReconfig ==
    /\ sighup
    /\ UNCHANGED <<prev, halfway, dup>>
    /\ sighup' = FALSE
    /\ sigjob' = FALSE
    /\ loaded' = [LoadResult("signal") EXCEPT !.complete = sigjob]
    /\ UNCHANGED <<cache, tmp, hooks, topic, step, pc, reloadVars, provVars,
                   results, cache0, hooks0, provisioned, rerun, sent>>

\* The host calls load_projects for another reason (its start, a
\* reconfiguration asked for by the operator).  It calls in its own thread,
\* whatever the job is doing in its worker thread.
HostLoad ==
    /\ UNCHANGED <<prev, halfway, dup>>
    /\ UNCHANGED sigjob
    /\ loaded' = LoadResult("host")
    /\ UNCHANGED <<cache, tmp, hooks, topic, step, pc, reloadVars, provVars,
                   results, sighup, cache0, hooks0, provisioned, rerun, sent>>

\* The host calls are_projects_cached: a call of its own, before or after
\* load_projects, whatever the job is doing; the rename of a reload's write
\* can fall between the two.
HostCached ==
    /\ UNCHANGED <<prev, halfway, dup>>
    /\ UNCHANGED sigjob
    /\ loaded' = CachedResult
    /\ UNCHANGED <<cache, tmp, hooks, topic, step, pc, reloadVars, provVars,
                   results, sighup, cache0, hooks0, provisioned, rerun, sent>>

\* The process is killed, while a job runs or between two jobs: what is in
\* memory is lost, a signal not yet handled with it; the files and the
\* hosting service stay as they are.  The temporary file of an interrupted
\* write stays on disk.
Crash ==
    /\ UNCHANGED prev
    /\ dup' = NoDup
    /\ halfway' = Aborted(halfway.aborted \/ (Running("hooks") /\ posts >= 1))
    /\ step' = 0
    /\ pc' = "idle"
    /\ ClearReload
    /\ repos' = <<>>
    /\ idx' = 0
    /\ listed' = <<>>
    /\ posts' = 0
    /\ results' = <<>>
    /\ sighup' = FALSE
    /\ sigjob' = FALSE
    /\ loaded' = NoLoad
    /\ cache0' = NoFile
    /\ sent' = FALSE
    /\ rerun' = FALSE
    /\ UNCHANGED <<cache, tmp, hooks, topic, hooks0, provisioned>>

\* The job and the host's handling of its signal, in a process that is not
\* killed (the kill is in the specification SpecAbort).  The host's other
\* calls of load_projects and are_projects_cached change nothing but the
\* host's record of what they returned; they are in the specification
\* SpecHost.
Next ==
    \/ StartJob
    \/ ReloadBegin
    \/ ReloadFetchPage
    \/ ReloadFetchFail
    \/ ReloadDecode
    \/ ReloadWrite
    \/ ReloadWriteFail
    \/ ReloadPost
    \/ HooksRead
    \/ HooksListPage
    \/ HooksListFail
    \/ HooksCreate
    \/ HooksCreateFail
    \/ HooksPost
    \/ JobEnd
    \/ HostReconfig

Spec == Init /\ [][Next]_vars

(***************************************************************************)
(* The same job under a configuration with a topic, the projects having    *)
(* any of the initial hooks: the specification of the provisioning step.   *)
(***************************************************************************)
InitHooks == Init /\ topic.set

SpecHooks == InitHooks /\ [][Next]_vars

(***************************************************************************)
(* The same job with or without a topic, no project having a hook at the   *)
(* start: the specification of the reload step.                            *)
(***************************************************************************)
InitReload == Init /\ \A i \in Ids : hooks[i] = <<>>

SpecReload == InitReload /\ [][Next]_vars

(***************************************************************************)
(* The same job, run again and again with no hook on the hosting service   *)
(* at the start, and with each successful reload recorded: the             *)
(* specification under which two reloads are compared.  The host's own     *)
(* calls of load_projects are left out: they change nothing a reload       *)
(* reads.                                                                  *)
(***************************************************************************)
InitTwice == Init /\ \A i \in Ids : hooks[i] = <<>>

NextTwice ==
    \/ StartJob
    \/ ReloadBegin
    \/ ReloadFetchPage
    \/ ReloadFetchFail
    \/ ReloadDecode
    \/ ReloadWrite
    \/ ReloadWriteFail
    \/ ReloadPostRecorded
    \/ HooksRead
    \/ HooksListPage
    \/ HooksListFail
    \/ HooksCreate
    \/ HooksCreateFail
    \/ HooksPost
    \/ JobEnd
    \/ HostReconfig

SpecTwice == InitTwice /\ [][NextTwice]_vars

(***************************************************************************)
(* The same job in a process that can be killed at any time, with the      *)
(* history of the provisioning runs that ended early kept: the             *)
(* specification of the kill and of re-invocation after an abort.  A topic *)
(* is configured; a project starts with no hook or with two, one of them   *)
(* at the callback URL.  The host's own calls of load_projects and         *)
(* are_projects_cached are left out: they change nothing a job reads.      *)
(***************************************************************************)
InitAbort ==
    /\ Start
    /\ halfway = History
    /\ topic.set
    /\ hooks \in [Ids -> {<<>>, <<NearHook, StaleHook>>}]

NextAbort ==
    \/ StartJob
    \/ ReloadBegin
    \/ ReloadFetchPage
    \/ ReloadFetchFail
    \/ ReloadDecode
    \/ ReloadWrite
    \/ ReloadWriteFail
    \/ ReloadPost
    \/ HooksRead
    \/ HooksListPage
    \/ HooksListFail
    \/ HooksCreate
    \/ HooksCreateFail
    \/ HooksPost
    \/ JobEnd
    \/ HostReconfig
    \/ Crash

SpecAbort == InitAbort /\ [][NextAbort]_vars

(***************************************************************************)
(* The job together with the host's own calls of load_projects and         *)
(* are_projects_cached, which the host makes in any state of the job.  No   *)
(* project has a hook at the start.                                        *)
(***************************************************************************)
InitHost == Init /\ \A i \in Ids : hooks[i] = <<>>

NextHost ==
    \/ StartJob
    \/ ReloadBegin
    \/ ReloadFetchPage
    \/ ReloadFetchFail
    \/ ReloadDecode
    \/ ReloadWrite
    \/ ReloadWriteFail
    \/ ReloadPost
    \/ HooksRead
    \/ HooksListPage
    \/ HooksListFail
    \/ HooksCreate
    \/ HooksCreateFail
    \/ HooksPost
    \/ JobEnd
    \/ HostReconfig
    \/ HostLoad
    \/ HostCached

SpecHost == InitHost /\ [][NextHost]_vars

(***************************************************************************)
(* load_projects as a function of the cache file and the topic: the host   *)
(* starts with a cache file that holds any records in any order (written   *)
(* under another topic, by another version, or by hand), the operator      *)
(* changes the topic between starts, and the host loads its projects.      *)
(***************************************************************************)
ValidRecords == {r \in UNION {RawChoices(i) : i \in Ids} : RepoData_validates(r)}

CachedLists == UNION {[1..n -> ValidRecords] : n \in 0..MaxCached}

InitLoad ==
    /\ \E rs \in CachedLists :
           cache = [exists |-> TRUE, data |-> model_dump_project_cache(rs)]
    /\ cache0 = cache
    /\ tmp = NoFile
    /\ hooks = [i \in Ids |-> <<>>]
    /\ hooks0 = hooks
    /\ topic \in Topics
    /\ step = 0
    /\ pc = "idle"
    /\ listing = <<>>
    /\ fetched = <<>>
    /\ doc = <<>>
    /\ repos = <<>>
    /\ idx = 0
    /\ listed = <<>>
    /\ posts = 0
    /\ results = <<>>
    /\ sighup = FALSE
    /\ loaded = NoLoad
    /\ provisioned = FALSE
    /\ rerun = FALSE
    /\ sent = FALSE
    /\ prev = NoReload
    /\ halfway = NoHistory
    /\ sigjob = FALSE
    /\ dup = NoDup

\* The host is started again with another topic in its configuration.
ChangeTopic ==
    /\ pc = "idle"
    /\ \E t \in Topics \ {topic} : topic' = t
    /\ loaded' = NoLoad
    /\ UNCHANGED <<cache, tmp, hooks, step, pc, reloadVars, provVars, results,
                   sighup, cache0, hooks0, provisioned, rerun, sent, prev,
                   halfway, sigjob, dup>>

NextLoad ==
    \/ HostLoad
    \/ HostCached
    \/ ChangeTopic

SpecLoad == InitLoad /\ [][NextLoad]_vars

(***************************************************************************)
(* Duplicate invocation: a second invocation of                            *)
(* CreateGitlabProjectHooks.run_deferred runs over the same cache file,    *)
(* started in any state of the job.  Its position is dup; its requests to  *)
(* the hosting service interleave with those of the job.                   *)
(***************************************************************************)
mainVars == <<cache, tmp, topic, step, pc, reloadVars, provVars, results,
              cache0, hooks0, provisioned, rerun, sent, prev, halfway, sigjob>>

DupAdvance(rs, k) ==
    dup' = [pc |-> IF k > Len(rs) THEN "post" ELSE "list",
            repos |-> rs, idx |-> k, listed |-> <<>>]

\* The second run starts and reads the cache, as HooksRead does: when the
\* read raises the run ends there.
DupRead ==
    /\ dup.pc = "idle"
    /\ \E raises \in (IF cache.exists
                      THEN {~model_validate_project_cache(cache.data).ok}
                      ELSE BOOLEAN) :
          IF raises
          THEN dup' = NoDup
          ELSE DupAdvance(CacheRepos(cache), 1)
    /\ loaded' = NoLoad
    /\ UNCHANGED <<mainVars, hooks, sighup>>

\* create_project_hook of the second run: a page of hooks arrives.
DupListPage ==
    /\ dup.pc = "list"
    /\ LET all == hooks[dup.repos[dup.idx].id]
           got == dup.listed \o PageAfter(all, Len(dup.listed))
       IN  IF MorePages(all, Len(dup.listed))
           THEN dup' = [dup EXCEPT !.listed = got]
           ELSE IF HookAlreadyExists(got)
                THEN DupAdvance(dup.repos, dup.idx + 1)
                ELSE dup' = [dup EXCEPT !.listed = got, !.pc = "create"]
    /\ loaded' = NoLoad
    /\ UNCHANGED <<mainVars, hooks, sighup>>

\* create_project_hook of the second run: the POST creates the hook.
DupCreate ==
    /\ dup.pc = "create"
    /\ hooks' = [hooks EXCEPT ![dup.repos[dup.idx].id] = PostHook(@)]
    /\ DupAdvance(dup.repos, dup.idx + 1)
    /\ loaded' = NoLoad
    /\ UNCHANGED <<mainVars, sighup>>

\* A request of the second run fails: the run ends there, with no signal.
\* When the request is the POST, the hosting service may or may not have
\* created the hook before the failure.
DupFail ==
    /\ dup.pc \in {"list", "create"}
    /\ \E created \in (IF dup.pc = "create" THEN BOOLEAN ELSE {FALSE}) :
           hooks' = IF created
                    THEN [hooks EXCEPT ![dup.repos[dup.idx].id] = PostHook(@)]
                    ELSE hooks
    /\ dup' = NoDup
    /\ loaded' = NoLoad
    /\ UNCHANGED <<mainVars, sighup>>

\* The second run has visited every record: its run_post signals the host.
DupPost ==
    /\ dup.pc = "post"
    /\ dup' = NoDup
    /\ sighup' = TRUE
    /\ loaded' = NoLoad
    /\ UNCHANGED <<mainVars, hooks>>

NextDup ==
    \/ StartJob
    \/ ReloadBegin
    \/ ReloadFetchPage
    \/ ReloadFetchFail
    \/ ReloadDecode
    \/ ReloadWrite
    \/ ReloadWriteFail
    \/ ReloadPost
    \/ HooksRead
    \/ HooksListPage
    \/ HooksListFail
    \/ HooksCreate
    \/ HooksCreateFail
    \/ HooksPost
    \/ JobEnd
    \/ HostReconfig
    \/ DupRead
    \/ DupListPage
    \/ DupCreate
    \/ DupFail
    \/ DupPost

InitDup == Init /\ \A i \in Ids : hooks[i] = <<>>

SpecDup == InitDup /\ [][NextDup]_vars

(***************************************************************************)
(* Properties.                                                             *)
(***************************************************************************)
ReloadReturned == Running("reload") /\ pc = "post"
HooksReturned == Running("hooks") /\ pc = "post"
Failed(name) == \E k \in DOMAIN results : results[k].step = name /\ results[k].raised
Succeeded(name) == \E k \in DOMAIN results : results[k].step = name /\ ~results[k].raised

\* C1: a provisioning run that reads a cache for which an earlier provisioning
\* run has completed successfully issues no hook-creating POST, however many
\* runs came before it.
C1_RerunIssuesNoPost == rerun => posts = 0

\* C1 witness: a re-run over a cache with projects has gone through all of
\* them, after an earlier run created a hook.
C1_Witness ==
    /\ rerun /\ HooksReturned /\ Len(repos) >= 1
    /\ \E i \in Ids : hooks0[i] = <<>> /\ hooks[i] # <<>>

\* C2: once a provisioning run has completed for the cache, every cached
\* project that started with at most one hook at the callback URL has exactly
\* one hook at instance_url + "change_hook/gitlab", after any number of runs.
C2_ExactlyOneHook ==
    provisioned =>
        \A k \in DOMAIN CacheRepos(cache) :
            LET i == CacheRepos(cache)[k].id
            IN  CountAt(hooks0[i]) <= 1 => CountAt(hooks[i]) = 1

\* C2 witness: a second run has completed over a cache with a project that had
\* no hook and one that had a hook at the callback URL with an old secret.
C2_Witness ==
    /\ provisioned /\ rerun /\ Succeeded("hooks")
    /\ \E k, l \in DOMAIN CacheRepos(cache) :
           /\ hooks0[CacheRepos(cache)[k].id] = <<>>
           /\ hooks0[CacheRepos(cache)[l].id] = <<NearHook, StaleHook>>

\* C3: when the reload fails while fetching a page or decoding a record, the
\* cache file is what it was when the reload began.
C3_FailedReloadKeepsCache ==
    \A k \in DOMAIN results :
        (results[k].step = "reload" /\ results[k].raised
            /\ results[k].at \in {"fetch", "decode"})
        => cache = cache0

\* C3 witness: a reload failed on a record it had fetched, while a cache
\* file of an earlier reload holds a project.
C3_Witness ==
    \E k \in DOMAIN results :
        /\ results[k].step = "reload" /\ results[k].raised
        /\ results[k].at = "decode"
        /\ cache.exists /\ Len(cache.data) > 2

\* C4: the cache path always holds a complete document (or nothing, before
\* the first reload), and its content changes only in one step of a reload's
\* write, from the previous snapshot to the complete new document; a crash
\* changes nothing.
C4_CacheNeverPartial ==
    /\ [](cache.exists => Decodes(cache.data))
    /\ [][cache' # cache =>
            /\ Running("reload") /\ pc = "write"
            /\ cache' = [exists |-> TRUE, data |-> doc]]_vars

\* C4 witness: the process was killed while the write of another document
\* was half done (its temporary file is still there, with one record), and
\* the host has since loaded the previous snapshot.
C4_Witness ==
    /\ ~Running("reload")
    /\ tmp.exists /\ Len(tmp.data) = 2
    /\ cache.exists /\ SubSeq(cache.data, 1, 2) # tmp.data
    /\ loaded.called /\ ~loaded.raised /\ Len(loaded.projects) >= 1

\* C5: after a successful reload the records of the cache file are sorted
\* ascending by path_with_namespace.
C5_CacheSortedByPath == ReloadReturned => IsSortedByPath(CacheRepos(cache))

\* What run_deferred does instead: after a successful reload the cache file
\* holds the matching records in the order the API returned them, and only
\* load_projects orders them by path_with_namespace.
CacheInApiOrder ==
    ReloadReturned =>
        /\ cache.exists
        /\ CacheRepos(cache) = SelectSeqBy(fetched, Range(CacheRepos(cache)))
        /\ IsSortedByPath(load_projects(cache, topic).projects)

\* A successful reload has left two records that are not in path order.
CacheNotInPathOrder ==
    /\ ReloadReturned
    /\ Len(CacheRepos(cache)) >= 2
    /\ ~IsSortedByPath(CacheRepos(cache))

\* C6: after a successful reload the cache holds exactly the fetched projects
\* whose topics contain the configured topic as an element, and every fetched
\* project when no topic is configured.
C6_CacheIsFilteredFetch ==
    ReloadReturned =>
        /\ cache.exists /\ Decodes(cache.data)
        /\ Range(CacheRepos(cache)) =
               {r \in Range(fetched) : ~topic.set \/ topic.val \in Range(r.topics)}
        /\ Cardinality(Range(CacheRepos(cache))) = Len(CacheRepos(cache))

\* C6 witness: with a topic configured, a reload kept one fetched project and
\* dropped another whose topics only resemble the topic.
C6_Witness ==
    /\ ReloadReturned /\ topic.set
    /\ Len(CacheRepos(cache)) = 1
    /\ \E k \in DOMAIN fetched : fetched[k].topics = <<"CI", "ci-cd">>

\* C7: while the provisioning step of a job runs, the job's reload step has
\* ended and no cache write is in progress.
C7_ReloadBeforeProvisioning ==
    Running("hooks") =>
        /\ \E k \in DOMAIN results : results[k].step = "reload"
        /\ doc = <<>>

\* C7 witness: provisioning lists hooks of a project the job's reload cached.
C7_Witness ==
    /\ Running("hooks") /\ pc = "list"
    /\ Succeeded("reload")

\* C8: the job has sent the reconfiguration signal only if its provisioning
\* went through every cached project without failure, so that each of them
\* has a hook at the callback URL; a job whose provisioning failed has sent
\* none.
C8_SignalOnlyAfterProvisioning ==
    /\ sent =>
        /\ Succeeded("hooks")
        /\ idx > Len(repos)
        /\ \A k \in DOMAIN repos : CountAt(hooks[repos[k].id]) >= 1
    /\ Failed("hooks") => ~sent

\* C8 witness: the signal was sent by a job that created a hook.
C8_Witness == sent /\ posts >= 1 /\ sighup

\* C8 witness of the failure case: provisioning failed after a POST.
C8_WitnessFailure == Failed("hooks") /\ posts >= 1 /\ ~sent

\* C9: a step whose run_deferred raised reports FAILURE, never SUCCESS.
C9_FailureIsReported ==
    \A k \in DOMAIN results : results[k].raised => results[k].result = "FAILURE"

\* C9 witness: in one job the reload failed and then provisioning failed.
C9_Witness == Failed("reload") /\ Failed("hooks")

\* C10: when the cache file does not exist load_projects returns no project
\* and does not raise, and are_projects_cached is false; are_projects_cached
\* is true exactly when the file exists.
C10_MissingCacheLoadsEmpty ==
    /\ (loaded.called /\ ~loaded.existed)
           => ~loaded.raised /\ loaded.projects = <<>>
    /\ loaded.asked => loaded.cached = loaded.present

\* C10 witness: the host made both calls while no cache file existed.
C10_Witness ==
    /\ loaded.called /\ ~loaded.existed
    /\ loaded.asked /\ ~loaded.present /\ ~loaded.cached
    /\ ~cache.exists

\* The two calls are not one step: the rename of a first reload can fall
\* between them, so that the host is told that nothing is cached and then
\* loads the new projects, or loads nothing and is then told that the
\* projects are cached.
HostSeesRenameAfterCached ==
    loaded.asked /\ ~loaded.cached /\ loaded.called /\ Len(loaded.projects) = 2

HostSeesRenameAfterLoad ==
    loaded.called /\ ~loaded.existed /\ loaded.asked /\ loaded.cached

\* C11: two successful reloads that find the same projects on the hosting
\* service, under the same topic, leave the same cache file: the same records
\* in the same order.
C11_ReloadIsDeterministic ==
    (ReloadReturned /\ prev.valid /\ prev.upstream = Range(listing)
        /\ prev.topic = topic)
    => cache = prev.cache

C11_Witness ==
    /\ ReloadReturned /\ prev.valid
    /\ prev.upstream = Range(listing) /\ prev.topic = topic
    /\ Len(listing) = NumProjects
    /\ Len(CacheRepos(cache)) >= 2
    /\ cache = prev.cache

\* C12: create_project_hook issues the POST for a project if and only if no
\* hook of the project, over all pages of its hook list, has the callback URL
\* as its url; a project that has such a hook, whatever its secret and SSL
\* flag, is passed over with its hooks as they were.
C12_PostIffNoHookAtUrl ==
    /\ [][(Running("hooks") /\ pc = "list" /\ pc' = "create")
            => /\ CountAt(hooks[repos[idx].id]) = 0
               /\ listed' = hooks[repos[idx].id]]_vars
    /\ [][(Running("hooks") /\ pc = "list" /\ idx' = idx + 1)
            => /\ CountAt(hooks[repos[idx].id]) >= 1
               /\ hooks' = hooks
               /\ posts' = posts]_vars
    /\ [][posts' > posts
            => /\ Running("hooks") /\ pc = "create"
               /\ CountAt(hooks[repos[idx].id]) = 0]_vars

C12_Witness ==
    /\ Succeeded("hooks") /\ Len(repos) = 2 /\ posts = 1
    /\ \E k, l \in DOMAIN repos :
           /\ hooks[repos[k].id] = <<NearHook, StaleHook>>
           /\ hooks[repos[l].id] = <<NewHook>>

\* C13: when a request for the hooks of the i-th cached project fails, the
\* provisioning run ends there with the failure recorded at i: the hooks of
\* the projects before i stay as the run left them, and until the job ends
\* no further request is made (nothing is listed, nothing is created).
C13_FailureAbortsRun ==
    /\ [][(HooksListFail \/ HooksCreateFail)
            => /\ pc' = "done"
               /\ results' = Append(results, results'[Len(results')])
               /\ LET last == results'[Len(results')]
                  IN  last.step = "hooks" /\ last.raised /\ last.n = idx
               /\ \A k \in 1..(idx - 1) :
                      hooks'[repos[k].id] = hooks[repos[k].id]]_vars
    /\ [][(Failed("hooks") /\ pc' # "idle")
            => hooks' = hooks /\ UNCHANGED provVars]_vars

\* C13 witness: the POST for the first of two cached projects failed.
C13_Witness ==
    /\ Failed("hooks") /\ pc = "done"
    /\ Len(repos) = 2 /\ idx = 1 /\ posts = 1
    /\ hooks[repos[2].id] = <<>>

\* C13, second case: the requests for the second project failed after the
\* hook of the first was created.
C13_WitnessEarlier ==
    /\ Failed("hooks") /\ pc = "done"
    /\ Len(repos) = 2 /\ idx = 2 /\ posts = 1
    /\ hooks0[repos[1].id] = <<>> /\ hooks[repos[1].id] = <<NewHook>>

\* C14: when a provisioning run completes after an earlier run over the same
\* cache was killed or failed with hooks already created, every cached project
\* has a hook at the callback URL, and no project has gained a second one: a
\* project that had hooks there has as many as before, any other has at most
\* one.
C14_CompletionAfterAbort ==
    (halfway.aborted /\ Succeeded("hooks")) =>
        /\ \A k \in DOMAIN repos : CountAt(hooks[repos[k].id]) >= 1
        /\ \A i \in Ids :
               IF CountAt(hooks0[i]) >= 1
               THEN CountAt(hooks[i]) = CountAt(hooks0[i])
               ELSE CountAt(hooks[i]) <= 1

\* C14 witness: of two cached projects without hooks, one got its hook from
\* the run that ended early and the other from the run that completed.
C14_Witness ==
    /\ halfway.aborted /\ Succeeded("hooks")
    /\ Len(repos) = 2 /\ posts = 1
    /\ \A k \in DOMAIN repos :
           hooks0[repos[k].id] = <<>> /\ hooks[repos[k].id] = <<NewHook>>

\* C15: with a second provisioning run interleaved with the job's, no project
\* that had at most one hook at the callback URL ends up with more than one.
C15_NoDuplicateHook ==
    \A i \in Ids : CountAt(hooks0[i]) <= 1 => CountAt(hooks[i]) <= 1

\* C16, the part that the step's own code decides: a provisioning run that
\* found no cache file and did not fail on reading it has no record to visit,
\* makes no request and succeeds.  Whether the read of a missing file fails
\* is the choice left open in HooksRead.
C16_NoCacheNoRequests ==
    (~cache.exists /\ step \in DOMAIN Steps /\ Steps[step] = "hooks"
        /\ pc \in {"post", "done"} /\ ~Failed("hooks"))
    => repos = <<>> /\ posts = 0 /\ hooks = hooks0

\* C16: a provisioning run that finds no cache file does not fail.
C16_MissingCacheIsNoError ==
    (~cache.exists /\ step \in DOMAIN Steps /\ Steps[step] = "hooks")
    => ~Failed("hooks")

C16_Witness ==
    /\ ~cache.exists /\ Failed("reload") /\ Succeeded("hooks")
    /\ repos = <<>> /\ posts = 0

\* C17: the cache after a successful reload is made of the fetched list and
\* the topic alone: it is the dump of the filtered fetch, whatever the cache
\* held before, so a project of the old cache that is no longer fetched, or
\* is fetched without the topic, is not in the new cache.
C17_ReloadReplacesCache ==
    ReloadReturned =>
        /\ cache = [exists |-> TRUE,
                    data |-> model_dump_project_cache(
                                 filter_repos_by_topic(topic, fetched))]
        /\ \A k \in DOMAIN CacheRepos(cache0) :
               LET old == CacheRepos(cache0)[k]
               IN  (\A j \in DOMAIN fetched :
                        fetched[j].id = old.id =>
                            topic.set /\ ~HasTopic(topic.val, fetched[j].topics))
                   => \A l \in DOMAIN CacheRepos(cache) :
                          CacheRepos(cache)[l].id # old.id

\* C17 witness: of two projects in the old cache, one is gone from the
\* hosting service and the other has lost the topic; the new cache is empty.
C17_Witness ==
    /\ ReloadReturned /\ topic.set
    /\ Len(CacheRepos(cache0)) = 2
    /\ Len(fetched) = 1
    /\ CacheRepos(cache) = <<>>

\* C18: when the host reconfigures on the signal of a job whose reload and
\* provisioning both succeeded and loads its projects, every project that
\* load_projects returns has a hook at the callback URL on the hosting
\* service.
C18_LoadedProjectsHaveHooks ==
    (loaded.called /\ loaded.by = "signal" /\ loaded.complete) =>
        /\ ~loaded.raised
        /\ \A k \in DOMAIN loaded.projects :
               CountAt(hooks[loaded.projects[k].id]) >= 1

\* The same holds of every signal that the host handles while the cache is
\* the one the provisioning run went through, that is, before the reload of
\* a later job has replaced it.
SignalHandledBeforeNextReload ==
    (loaded.called /\ loaded.by = "signal" /\ provisioned) =>
        /\ ~loaded.raised
        /\ \A k \in DOMAIN loaded.projects :
               CountAt(hooks[loaded.projects[k].id]) >= 1

\* C19: from the start of the provisioning step to the end of its job, the
\* cache file and the temporary file stay as they are, a project's hooks
\* change only by one new hook after the ones it has, only for the record the
\* run is at and together with a POST, and a run has made at most one POST
\* for each record it has visited.
C19_ProvisioningOnlyAdds ==
    /\ [][(step \in DOMAIN Steps /\ Steps[step] = "hooks")
            => /\ cache' = cache /\ tmp' = tmp
               /\ \A i \in Ids :
                      \/ hooks'[i] = hooks[i]
                      \/ /\ pc = "create" /\ i = repos[idx].id
                         /\ posts' = posts + 1
                         /\ Len(hooks'[i]) = Len(hooks[i]) + 1
                         /\ SubSeq(hooks'[i], 1, Len(hooks[i])) = hooks[i]]_vars
    /\ []((step \in DOMAIN Steps /\ Steps[step] = "hooks")
            => posts <= Len(repos) /\ posts <= idx)
    /\ [][posts' > posts => posts' = posts + 1 /\ (idx' > idx \/ pc' = "done")]_vars

\* C19 witness: a run over a cache of one project has given it a hook after
\* the hook it had; the other project, not in the cache, has the hooks it
\* started with.
C19_Witness ==
    /\ Succeeded("hooks") /\ Len(repos) = 1 /\ posts = 1
    /\ hooks[repos[1].id] = <<NearHook, NewHook>>
    /\ \A i \in Ids : i # repos[1].id => hooks[i] = hooks0[i] /\ hooks[i] # <<>>

\* C20: for a cache file that exists and decodes, whatever the order of its
\* records, load_projects does not fail, returns the records of the file
\* that carry the configured topic (all of them when no topic is set), each
\* as often as the file holds it, in ascending order of path_with_namespace,
\* and the file is as it was.
C20_LoadFiltersAndSorts ==
    (loaded.called /\ loaded.existed) =>
        /\ ~loaded.raised
        /\ IsSortedByPath(loaded.projects)
        /\ \A r \in ValidRecords :
               Cardinality({k \in DOMAIN loaded.projects : loaded.projects[k] = r})
                   = IF ~topic.set \/ topic.val \in Range(r.topics)
                     THEN Cardinality({k \in DOMAIN CacheRepos(cache) :
                                          CacheRepos(cache)[k] = r})
                     ELSE 0
        /\ Range(loaded.projects) \subseteq ValidRecords
        /\ cache = cache0

\* C20 witness: the file holds three records that are not in order of path,
\* one of them without the topic; two are returned, in another order than
\* the file's.
C20_Witness ==
    /\ loaded.called /\ loaded.existed /\ topic.set
    /\ Len(CacheRepos(cache)) = 3
    /\ ~IsSortedByPath(CacheRepos(cache))
    /\ Len(loaded.projects) = 2
    /\ loaded.projects # filter_repos_by_topic(topic, CacheRepos(cache))

====
